---------------------------- MODULE Spec2Model ----------------------------
(***************************************************************************)
(* Lead Qualification service (src/main.py): the rule scorer, the intent   *)
(* classifier with its heuristic and failure paths, the score aggregator,  *)
(* and the process-wide offer / lead batch / result store with the         *)
(* handlers that read and write them.                                      *)
(*                                                                         *)
(* Python strings are TLA+ strings; `k in s`, lower(), strip(), split()    *)
(* and capitalize() are computed character by character with SubSeq.       *)
(***************************************************************************)
EXTENDS Integers, Sequences, FiniteSets, TLC

VARIABLES
    GEMINI_API_KEY,   \* TRUE when the credential is configured (line 44)
    offer_data,       \* the current offer; <<>> is the empty dict
    leads_data,       \* the current lead batch
    scored_results,   \* the result store
    pc,               \* per worker thread: its place in score_leads
    offer,            \* per worker: score_leads' local `offer`
    batch,            \* per worker: the list object the for loop iterates
    idx,              \* per worker: how many leads of `batch` are consumed
    response,         \* the last HTTP response sent, by any handler
    invoked,          \* history, per worker: offer and leads at invocation
    requests,         \* history, per worker: the classifier calls of this run
    committed,        \* history: the store when an undisturbed run of the
                      \* heuristic last completed, while `stable`; else empty
    completed,        \* history: whether any run has completed
    alone,            \* history, per worker: no other writer ran within this run
    stable            \* history: `committed` is an undisturbed run's result
                      \* and offer and leads are unchanged since

vars == << GEMINI_API_KEY, offer_data, leads_data, scored_results, pc, offer,
           batch, idx, response, invoked, requests, committed, completed,
           alone, stable >>

(***************************************************************************)
(* String helpers (Python str methods used by the source)                  *)
(***************************************************************************)
UpperAlpha == "ABCDEFGHIJKLMNOPQRSTUVWXYZ"
LowerAlpha == "abcdefghijklmnopqrstuvwxyz"
Whitespace == {" ", "\t", "\n", "\r"}

CharAt(s, i) == SubSeq(s, i, i)

\* str.lower() on one character
LowerChar(c) ==
    IF \E i \in 1..Len(UpperAlpha) : CharAt(UpperAlpha, i) = c
    THEN CharAt(LowerAlpha, CHOOSE i \in 1..Len(UpperAlpha) : CharAt(UpperAlpha, i) = c)
    ELSE c

\* str.upper() on one character
UpperChar(c) ==
    IF \E i \in 1..Len(LowerAlpha) : CharAt(LowerAlpha, i) = c
    THEN CharAt(UpperAlpha, CHOOSE i \in 1..Len(LowerAlpha) : CharAt(LowerAlpha, i) = c)
    ELSE c

RECURSIVE Lower(_)
Lower(s) ==
    IF Len(s) = 0 THEN ""
    ELSE LowerChar(CharAt(s, 1)) \o Lower(SubSeq(s, 2, Len(s)))

\* str.capitalize(): first character upper-cased, the rest lower-cased
Capitalize(s) ==
    IF Len(s) = 0 THEN ""
    ELSE UpperChar(CharAt(s, 1)) \o Lower(SubSeq(s, 2, Len(s)))

\* Python `k in s` for strings (the empty string is in every string)
Contains(k, s) ==
    \E i \in 1..(Len(s) - Len(k) + 1) : SubSeq(s, i, i + Len(k) - 1) = k

\* str.startswith
StartsWith(s, p) == Len(p) <= Len(s) /\ SubSeq(s, 1, Len(p)) = p

\* str.strip()
Strip(s) ==
    LET nonblank == {i \in 1..Len(s) : CharAt(s, i) \notin Whitespace}
        Min(S) == CHOOSE m \in S : \A n \in S : m <= n
        Max(S) == CHOOSE m \in S : \A n \in S : m >= n
    IN  IF nonblank = {} THEN "" ELSE SubSeq(s, Min(nonblank), Max(nonblank))

\* str.split('\n'): the sequence of lines
RECURSIVE SplitLines(_)
SplitLines(s) ==
    LET breaks == {i \in 1..Len(s) : CharAt(s, i) = "\n"}
    IN  IF breaks = {} THEN <<s>>
        ELSE LET b == CHOOSE m \in breaks : \A n \in breaks : m <= n
             IN  <<SubSeq(s, 1, b - 1)>> \o SplitLines(SubSeq(s, b + 1, Len(s)))

\* line.split(":", 1)[1] for a line that holds a colon
AfterColon(s) ==
    LET colons == {i \in 1..Len(s) : CharAt(s, i) = ":"}
        c == CHOOSE m \in colons : \A n \in colons : m <= n
    IN  SubSeq(s, c + 1, Len(s))

\* any(k in s for k in keywords)
AnyIn(keywords, s) == \E j \in 1..Len(keywords) : Contains(keywords[j], s)

\* str(int)
IntStr(n) == ToString(n)

RECURSIVE JoinWith(_, _)
\* sep.join(parts)
JoinWith(sep, parts) ==
    IF Len(parts) = 0 THEN ""
    ELSE IF Len(parts) = 1 THEN parts[1]
    ELSE parts[1] \o sep \o JoinWith(sep, Tail(parts))

(***************************************************************************)
(* Rule scorer                                                             *)
(***************************************************************************)
decision_makers ==
    << "ceo", "cto", "cfo", "cmo", "coo", "president", "founder", "owner",
       "head of", "director", "vp", "vice president", "chief" >>

influencers ==
    << "manager", "lead", "senior", "principal", "architect", "specialist" >>

adjacent_keywords ==
    << "tech", "software", "saas", "technology", "digital", "online" >>

calculate_role_score(role) ==
    LET role_lower == Lower(role)
    IN  IF AnyIn(decision_makers, role_lower) THEN 20
        ELSE IF AnyIn(influencers, role_lower) THEN 10
        ELSE 0

calculate_industry_score(industry, ideal_use_cases) ==
    LET industry_lower == Lower(industry)
    IN  IF \E j \in 1..Len(ideal_use_cases) :
              LET use_case_lower == Lower(ideal_use_cases[j])
              IN  Contains(industry_lower, use_case_lower)
                  \/ Contains(use_case_lower, industry_lower)
        THEN 20
        ELSE IF AnyIn(adjacent_keywords, industry_lower) THEN 10
        ELSE 0

LeadFields == {"name", "role", "company", "industry", "location", "linkedin_bio"}

\* mutant: the min(10, ...) of line 130 left out
uncapped_completeness_score(lead) ==
    Cardinality({f \in LeadFields : Strip(lead[f]) # ""}) * 2

calculate_data_completeness_score(lead) ==
    LET complete_fields == Cardinality({f \in LeadFields : Strip(lead[f]) # ""})
    IN  IF complete_fields * 2 < 10 THEN complete_fields * 2 ELSE 10


(***************************************************************************)
(* Intent classifier                                                       *)
(*                                                                         *)
(* `reply` is what the external service does with the one request:         *)
(*   error    "" when requests.post, raise_for_status and r.json() all     *)
(*            succeed, else the message of the exception raised;           *)
(*   has_text whether data["candidates"][0]["content"]["parts"][0]["text"] *)
(*            exists and is a string;                                      *)
(*   body     that text when has_text, else str(data).                     *)
(***************************************************************************)
high_intent_roles == << "ceo", "cto", "founder", "head of", "director", "vp" >>

high_intent_industries == << "saas", "technology", "software", "tech" >>

\* mutant: the fall-through returns the 30 that line 143 assigns
heuristic_table_default_30(role_hit, industry_hit) ==
    IF role_hit /\ industry_hit
    THEN << 50, "Heuristic: decision-maker in tech industry" >>
    ELSE IF role_hit THEN << 40, "Heuristic: decision-maker role" >>
    ELSE IF industry_hit THEN << 35, "Heuristic: tech industry match" >>
    ELSE << 30, "AI disabled: heuristic based on role/industry" >>

\* lines 143-153: the four returns
heuristic_table(role_hit, industry_hit) ==
    IF role_hit /\ industry_hit
    THEN << 50, "Heuristic: decision-maker in tech industry" >>
    ELSE IF role_hit THEN << 40, "Heuristic: decision-maker role" >>
    ELSE IF industry_hit THEN << 35, "Heuristic: tech industry match" >>
    ELSE << 20, "AI disabled: heuristic based on role/industry" >>

\* mutant: the heuristic reuses the rule scorer's keyword lists
heuristic_with_rule_keywords(lead) ==
    heuristic_table(AnyIn(decision_makers, Lower(lead.role)),
                    AnyIn(adjacent_keywords, Lower(lead.industry)))

\* lines 140-153: the heuristic when no key is configured
heuristic_ai_score(lead) ==
    LET role_lower == Lower(lead.role)
        industry_lower == Lower(lead.industry)
    IN  heuristic_table(AnyIn(high_intent_roles, role_lower),
                        AnyIn(high_intent_industries, industry_lower))

\* lines 192-198: the candidate text, or the stringified body
response_text(reply) == IF reply.has_text THEN Strip(reply.body) ELSE reply.body

\* lines 200-206: the scan of the lines; a later labelled line overwrites
RECURSIVE scan_lines(_, _, _)
scan_lines(lines, intent, reasoning) ==
    IF Len(lines) = 0 THEN << intent, reasoning >>
    ELSE LET line == Head(lines)
             key == Lower(Strip(line))
         IN  IF StartsWith(key, "intent:")
             THEN scan_lines(Tail(lines), Capitalize(Strip(AfterColon(line))), reasoning)
             ELSE IF StartsWith(key, "reasoning:")
             THEN scan_lines(Tail(lines), intent, Strip(AfterColon(line)))
             ELSE scan_lines(Tail(lines), intent, reasoning)

\* lines 208-209: intent_scores.get(intent, 30)
intent_score(intent) ==
    CASE intent = "High" -> 50
      [] intent = "Medium" -> 30
      [] intent = "Low" -> 10
      [] OTHER -> 30

\* lines 200-212: a response that was received and decoded
parsed_ai_score(reply) ==
    LET found == scan_lines(SplitLines(response_text(reply)), "Medium", "")
    IN  << intent_score(found[1]),
           IF found[2] = "" THEN "AI provided no explanation" ELSE found[2] >>

\* mutant: a failed call is scored like a reply without a label
failed_ai_score_as_unlabelled(error) == << 30, "AI provided no explanation" >>

\* lines 214-217: the except clause around the whole delegated path
failed_ai_score(error) == << 25, "AI scoring failed: " \o error >>

get_ai_score(lead, offer_, reply) ==
    IF ~GEMINI_API_KEY THEN heuristic_ai_score(lead)
    ELSE IF reply.error # "" THEN failed_ai_score(reply.error)
    ELSE parsed_ai_score(reply)

(***************************************************************************)
(* Score aggregator                                                        *)
(***************************************************************************)
intent_of(final_score) ==
    IF final_score >= 70 THEN "High"
    ELSE IF final_score >= 40 THEN "Medium"
    ELSE "Low"

score_lead(lead, offer_, reply) ==
    LET role_score == calculate_role_score(lead.role)
        industry_score == calculate_industry_score(lead.industry, offer_.ideal_use_cases)
        completeness_score == calculate_data_completeness_score(lead)
        rule_score == role_score + industry_score + completeness_score
        ai == get_ai_score(lead, offer_, reply)
        final_score == rule_score + ai[1]
        reasoning_parts ==
            (IF role_score > 0
             THEN << "Role relevance: " \o IntStr(role_score) \o " points" >> ELSE << >>)
            \o (IF industry_score > 0
                THEN << "Industry match: " \o IntStr(industry_score) \o " points" >> ELSE << >>)
            \o (IF completeness_score > 0
                THEN << "Data completeness: " \o IntStr(completeness_score) \o " points" >>
                ELSE << >>)
            \o << "AI assessment: " \o ai[2] >>
    IN  [ name |-> lead.name, role |-> lead.role, company |-> lead.company,
          industry |-> lead.industry, location |-> lead.location,
          linkedin_bio |-> lead.linkedin_bio,
          intent |-> intent_of(final_score), score |-> final_score,
          reasoning |-> JoinWith(". ", reasoning_parts),
          rule_score |-> rule_score, ai_score |-> ai[1] ]

(***************************************************************************)
(* Inputs                                                                  *)
(***************************************************************************)
NumWorkers == 2   \* threadpool threads that may run score_leads at once
MaxBatch == 2     \* longest uploaded lead batch

Workers == 1..NumWorkers

MkLead(role, industry, fill) ==
    [ name |-> fill, role |-> role, company |-> fill, industry |-> industry,
      location |-> fill, linkedin_bio |-> fill ]

MkOffer(name, use_cases) ==
    [ name |-> name, value_props |-> << "automation" >>, ideal_use_cases |-> use_cases ]

OfferCRM == MkOffer("CRM Pro", << "saas", "technology" >>)
OfferShop == MkOffer("ShopKit", << "Retail stores" >>)
OfferBare == MkOffer("Bare", << >>)

Offers == { OfferCRM, OfferShop }
RichOffers == { OfferCRM, OfferShop, OfferBare }

LeadCTO == MkLead("CTO", "SaaS", "Ava")
LeadIntern == MkLead("Intern", "Retail", "Ben")

Leads == { LeadCTO, LeadIntern }

RichRoles == { "CEO", "CFO", "Vice President", "Senior Director", "Sales Manager",
               "Intern", "" }
RichIndustries == { "SaaS", "FinTech", "Digital Media", "Retail", "Healthcare", "" }
RichLeads == { MkLead(r, i, f) : r \in RichRoles, i \in RichIndustries, f \in { "Ava", " " } }

\* the uploads tried: every contiguous slice of an alternating roster
Roster == [ i \in 1..MaxBatch |-> IF i % 2 = 1 THEN LeadCTO ELSE LeadIntern ]
Batches == { SubSeq(Roster, i, j) : i \in 1..MaxBatch, j \in 0..MaxBatch }
RichBatches == { << l >> : l \in RichLeads } \cup (Batches \ { << >> })

\* what the external service may do with a request
Reply(error, has_text, body) == [ error |-> error, has_text |-> has_text, body |-> body ]

ReplyHigh == Reply("", TRUE, "Intent: High\nReasoning: Strong fit")
ReplyTimeout == Reply("Read timed out", FALSE, "")
ReplyNoText == Reply("", FALSE, "{'error': 'blocked'}")
NoReply == Reply("", FALSE, "")   \* the heuristic path makes no request

Replies == { ReplyTimeout }
RichReplies ==
    { ReplyHigh, ReplyTimeout, ReplyNoText,
      Reply("Connection refused", FALSE, ""),
      Reply("503 Server Error", FALSE, ""),
      Reply("Expecting value: line 1 column 1 (char 0)", FALSE, ""),
      Reply("", TRUE, "  intent: LOW \n reasoning: no budget"),
      Reply("", TRUE, "Intent: Medium"),
      Reply("", TRUE, "INTENT: very high\nReasoning: keen"),
      Reply("", TRUE, "I cannot classify this lead."),
      Reply("", FALSE, "Intent: low") }

\* an uploaded file: its name, whether it decodes as UTF-8, and its rows; a row
\* is a lead, or lacks a required column, or holds None for a field
Row(kind, lead) == [ kind |-> kind, lead |-> lead ]
GoodRows(b) == [ i \in 1..Len(b) |-> Row("ok", b[i]) ]
File(csv, utf8, rows) == [ csv |-> csv, utf8 |-> utf8, rows |-> rows ]

Files ==
    { File(TRUE, TRUE, GoodRows(b)) : b \in Batches }
    \cup { File(FALSE, TRUE, GoodRows(<< LeadCTO >>)),
           File(TRUE, FALSE, GoodRows(<< LeadCTO >>)),
           File(TRUE, TRUE, << Row("ok", LeadIntern), Row("missing_column", LeadCTO) >>),
           File(TRUE, TRUE, << Row("ok", LeadIntern), Row("none_value", LeadCTO) >>) }

(***************************************************************************)
(* State                                                                   *)
(***************************************************************************)
Response(op, status) == [ op |-> op, status |-> status ]

Idle ==
    /\ pc = [ w \in Workers |-> "idle" ]
    /\ offer = [ w \in Workers |-> << >> ]
    /\ batch = [ w \in Workers |-> << >> ]
    /\ idx = [ w \in Workers |-> 0 ]
    /\ response = Response("none", 0)
    /\ invoked = [ w \in Workers |-> << >> ]
    /\ requests = [ w \in Workers |-> << >> ]
    /\ committed = << >>
    /\ completed = FALSE
    /\ alone = [ w \in Workers |-> FALSE ]
    /\ stable = FALSE

\* lines 44-53: the module's globals after import
Init ==
    /\ GEMINI_API_KEY \in BOOLEAN
    /\ offer_data = << >>
    /\ leads_data = << >>
    /\ scored_results = << >>
    /\ Idle

(***************************************************************************)
(* Handlers on the event loop: each touches the globals at one point       *)
(***************************************************************************)
create_offer(o) ==
    /\ offer_data' = o
    /\ response' = Response("create_offer", 200)
    /\ alone' = [ w \in Workers |-> FALSE ]
    /\ stable' = FALSE
    /\ committed' = << >>
    /\ UNCHANGED << GEMINI_API_KEY, leads_data, scored_results, pc, offer, batch,
                    idx, invoked, requests, completed >>

\* lines 284-294: the rows in order; the first bad row raises
RECURSIVE parse_rows(_, _)
parse_rows(rows, leads) ==
    IF Len(rows) = 0 THEN [ ok |-> TRUE, leads |-> leads ]
    ELSE IF Head(rows).kind # "ok" THEN [ ok |-> FALSE, leads |-> leads ]
    ELSE parse_rows(Tail(rows), Append(leads, Head(rows).lead))

\* lines 272-304: whether the upload succeeds, and the list it builds
parse_file(file) ==
    IF ~file.csv \/ ~file.utf8 THEN [ ok |-> FALSE, leads |-> << >> ]
    ELSE parse_rows(file.rows, << >>)

\* mutant: each lead is appended to leads_data as soon as its row is parsed
uploaded_leads_row_by_row(file) == parse_file(file).leads

\* lines 296-297: the value of leads_data when the handler ends
uploaded_leads(file) ==
    IF parse_file(file).ok THEN parse_file(file).leads ELSE leads_data

upload_leads(file) ==
    /\ leads_data' = uploaded_leads(file)
    /\ IF parse_file(file).ok
       THEN /\ response' = Response("upload_leads", 200)
            /\ alone' = [ w \in Workers |-> FALSE ]
            /\ stable' = FALSE
            /\ committed' = << >>
       ELSE /\ response' = Response("upload_leads", 400)
            /\ UNCHANGED << alone, stable, committed >>
    /\ UNCHANGED << GEMINI_API_KEY, offer_data, scored_results, pc, offer, batch,
                    idx, invoked, requests, completed >>

\* lines 334-337
get_results_status == IF scored_results = << >> THEN 404 ELSE 200

get_results ==
    /\ response' = Response("get_results", get_results_status)
    /\ UNCHANGED << GEMINI_API_KEY, offer_data, leads_data, scored_results, pc,
                    offer, batch, idx, invoked, requests, committed, completed,
                    alone, stable >>

(***************************************************************************)
(* score_leads, run on a threadpool thread.  Consecutive statements are    *)
(* one step where no other handler can tell the difference: the two checks *)
(* of lines 309-313 (an offer, once set, is never empty again), and lines  *)
(* 316-320 (the offer is read, the store is rebound to a new list and the  *)
(* iterator takes the list leads_data names).  The except clause of lines  *)
(* 327-329 is never entered: the offer was validated when it was stored,   *)
(* and score_lead raises nothing.                                          *)
(***************************************************************************)
InFlight(w) == pc[w] # "idle"

\* the worker's locals and history when it is not in score_leads
Leave(w) ==
    /\ pc' = [ pc EXCEPT ![w] = "idle" ]
    /\ offer' = [ offer EXCEPT ![w] = << >> ]
    /\ batch' = [ batch EXCEPT ![w] = << >> ]
    /\ idx' = [ idx EXCEPT ![w] = 0 ]
    /\ invoked' = [ invoked EXCEPT ![w] = << >> ]
    /\ requests' = [ requests EXCEPT ![w] = << >> ]

\* mutant: the check of leads_data (lines 312-313) left out
configured_offer_only == offer_data # << >>

\* lines 309 and 312: both guards pass
configured == offer_data # << >> /\ leads_data # << >>

\* lines 309-313: entry and the two checks
enter(w) ==
    /\ pc[w] = "idle"
    /\ IF ~configured
       THEN /\ response' = Response("score_leads", 400)
            /\ UNCHANGED << pc, invoked, alone >>
       ELSE /\ pc' = [ pc EXCEPT ![w] = "begin" ]
            /\ invoked' = [ invoked EXCEPT ![w] =
                              [ offer |-> offer_data, leads |-> leads_data ] ]
            /\ alone' = IF \E v \in Workers : InFlight(v)
                        THEN [ v \in Workers |-> FALSE ]
                        ELSE [ alone EXCEPT ![w] = TRUE ]
            /\ UNCHANGED response
    /\ UNCHANGED << GEMINI_API_KEY, offer_data, leads_data, scored_results, offer,
                    batch, idx, requests, committed, completed, stable >>

\* mutant: line 318 left out, the run appends to the previous results
keep_store(results) == results

\* line 318: scored_results = []
reset_store(results) == << >>

\* lines 316-320: Offer(**offer_data), the reset, and iter(leads_data) over the
\* list object bound at this moment
begin(w) ==
    /\ pc[w] = "begin"
    /\ offer' = [ offer EXCEPT ![w] = offer_data ]
    /\ scored_results' = reset_store(scored_results)
    /\ batch' = [ batch EXCEPT ![w] = leads_data ]
    /\ idx' = [ idx EXCEPT ![w] = 0 ]
    /\ pc' = [ pc EXCEPT ![w] = "loop" ]
    /\ UNCHANGED << GEMINI_API_KEY, offer_data, leads_data, response, invoked,
                    requests, committed, completed, alone, stable >>

\* line 322: the store after scored_results.append(scored_lead)
appended(results, scored_lead) == Append(results, scored_lead)

\* lines 320-322: one iteration; the classifier's request is made only when a
\* key is configured, and the append goes to whatever list the global names then
score_next(w, replies) ==
    /\ pc[w] = "loop"
    /\ idx[w] < Len(batch[w])
    /\ \E reply \in (IF GEMINI_API_KEY THEN replies ELSE { NoReply }) :
          /\ scored_results' =
                appended(scored_results, score_lead(batch[w][idx[w] + 1], offer[w], reply))
          /\ requests' = [ requests EXCEPT ![w] =
                             IF GEMINI_API_KEY THEN Append(@, reply) ELSE @ ]
    /\ idx' = [ idx EXCEPT ![w] = @ + 1 ]
    /\ UNCHANGED << GEMINI_API_KEY, offer_data, leads_data, pc, offer, batch,
                    response, invoked, committed, completed, alone, stable >>

\* history: the run met no other writer, and the classifier is the heuristic
Undisturbed(w) == alone[w] /\ ~GEMINI_API_KEY

\* lines 324-325: the loop is exhausted; len(scored_results) is read and returned
finish(w) ==
    /\ pc[w] = "loop"
    /\ idx[w] = Len(batch[w])
    /\ response' = Response("score_leads", 200)
    /\ Leave(w)
    /\ committed' = IF Undisturbed(w) THEN scored_results ELSE << >>
    /\ completed' = TRUE
    /\ stable' = Undisturbed(w)
    /\ alone' = [ alone EXCEPT ![w] = FALSE ]
    /\ UNCHANGED << GEMINI_API_KEY, offer_data, leads_data, scored_results >>

(***************************************************************************)
(* The service with one scoring run at a time: the event loop's handlers   *)
(* interleave with the steps of a run on a threadpool thread.              *)
(***************************************************************************)
Next ==
    \/ \E o \in Offers : create_offer(o)
    \/ \E file \in Files : upload_leads(file)
    \/ get_results
    \/ enter(1)
    \/ begin(1)
    \/ score_next(1, Replies)
    \/ finish(1)

Spec == Init /\ [][Next]_vars

(***************************************************************************)
(* Overlapping runs: NumWorkers threadpool threads run score_leads at once *)
(* against an offer and a batch that were set before and stay as they are. *)
(***************************************************************************)
InitOverlap ==
    /\ GEMINI_API_KEY \in BOOLEAN
    /\ offer_data \in Offers
    /\ leads_data \in Batches \ { << >> }
    /\ scored_results = << >>
    /\ Idle

NextOverlap ==
    \/ get_results
    \/ \E w \in Workers :
          \/ enter(w)
          \/ begin(w)
          \/ score_next(w, Replies)
          \/ finish(w)

SpecOverlap == InitOverlap /\ [][NextOverlap]_vars

(***************************************************************************)
(* The scoring pipeline alone: one run at a time over every offer, lead    *)
(* and classifier reply, from any offer and batch the handlers can set.    *)
(***************************************************************************)
InitScoring ==
    /\ GEMINI_API_KEY \in BOOLEAN
    /\ offer_data \in RichOffers
    /\ leads_data \in RichBatches
    /\ scored_results = << >>
    /\ Idle

NextScoring ==
    \/ get_results
    \/ enter(1)
    \/ begin(1)
    \/ score_next(1, RichReplies)
    \/ finish(1)

SpecScoring == InitScoring /\ [][NextScoring]_vars

(***************************************************************************)
(* Properties                                                              *)
(***************************************************************************)
\* the lead a ScoredLead was made from
LeadOf(r) == [ f \in LeadFields |-> r[f] ]

Entries == { scored_results[i] : i \in 1..Len(scored_results) }

\* C1: a score_leads call entered while no offer or no lead batch is set is
\* answered 400 in that very step: the worker stays out of the run, no lead
\* is consumed, no classifier request is made, and the result store is what
\* it was, whatever it held.
C1_RefusedRunTouchesNothing ==
    [][ \A w \in Workers :
          (enter(w) /\ (offer_data = << >> \/ leads_data = << >>))
          => /\ response' = Response("score_leads", 400)
             /\ pc'[w] = "idle"
             /\ idx' = idx
             /\ requests' = requests
             /\ scored_results' = scored_results ]_vars

\* C1 witness: the last answer is a refused run, while the store still holds
\* the results of an earlier run and the lead batch is empty.
C1_RefusedAfterEarlierRun ==
    /\ response = Response("score_leads", 400)
    /\ pc[1] = "idle"
    /\ completed
    /\ leads_data = << >>
    /\ Len(scored_results) > 0

\* some run is part-way through its batch and the store holds exactly the
\* results of the leads it has consumed so far
PartialResultsOf(w) ==
    /\ pc[w] = "loop"
    /\ Len(scored_results) > 0
    /\ Len(scored_results) < Len(batch[w])
    /\ \A i \in 1..Len(scored_results) : LeadOf(scored_results[i]) = batch[w][i]

\* C2: no partial results: in no reachable state does the result store hold
\* results for only a proper prefix of the lead batch a run is scoring.
C2_NoPartialResults == \A w \in Workers : ~PartialResultsOf(w)

\* r is the result of scoring `lead` against offer o
IsResultFor(r, lead, o) ==
    /\ LeadOf(r) = lead
    /\ r.rule_score = calculate_role_score(lead.role)
                      + calculate_industry_score(lead.industry, o.ideal_use_cases)
                      + calculate_data_completeness_score(lead)
    /\ r.score = r.rule_score + r.ai_score
    /\ ~GEMINI_API_KEY => r = score_lead(lead, o, NoReply)

\* C3: when a run completes, the result store holds exactly one result per
\* lead of the batch that was current when the run was invoked, in order,
\* scored against the offer current then, and nothing else, whatever other
\* run overlaps it.
C3_CompletedRunHoldsItsBatch ==
    [][ \A w \in Workers :
          finish(w)
          => /\ Len(scored_results') = Len(invoked[w].leads)
             /\ \A i \in 1..Len(invoked[w].leads) :
                   IsResultFor(scored_results'[i], invoked[w].leads[i], invoked[w].offer)
      ]_vars

\* C5: get_results answers 404 in every state in which no run has completed.
C5_NotFoundUntilARunCompletes == ~completed => get_results_status = 404

\* C7: with the heuristic classifier, a run that follows a completed run, with
\* no create_offer, no successful upload_leads and no overlapping run since
\* the earlier run was entered, leaves the store as the earlier run left it.
C7_RerunLeavesSameResults ==
    \A w \in Workers :
        (/\ ~GEMINI_API_KEY
         /\ stable
         /\ alone[w]
         /\ pc[w] = "loop"
         /\ idx[w] = Len(batch[w]))
        => scored_results = committed

\* C7 witness: a second undisturbed run has scored its whole batch of more
\* than one lead and is about to return.
C7_SecondRunDone ==
    /\ ~GEMINI_API_KEY
    /\ stable
    /\ alone[1]
    /\ pc[1] = "loop"
    /\ idx[1] = Len(batch[1])
    /\ Len(committed) > 1

\* what an upload is expected to do, read off the file
AllRowsValid(file) ==
    file.csv /\ file.utf8 /\ \A i \in 1..Len(file.rows) : file.rows[i].kind = "ok"

RowLeads(file) == [ i \in 1..Len(file.rows) |-> file.rows[i].lead ]

\* C10: create_offer replaces the offer and touches neither the lead batch
\* nor the store; an upload whose rows are all valid replaces the lead batch
\* by exactly the file's leads and touches neither the offer nor the store;
\* an upload that fails on any row changes none of the three.
C10_SettersTouchOnlyTheirOwn ==
    [][ /\ \A o \in Offers :
             create_offer(o)
             => /\ offer_data' = o
                /\ leads_data' = leads_data
                /\ scored_results' = scored_results
        /\ \A file \in Files :
             upload_leads(file)
             => /\ leads_data' = IF AllRowsValid(file) THEN RowLeads(file) ELSE leads_data
                /\ offer_data' = offer_data
                /\ scored_results' = scored_results
                /\ response'.status = IF AllRowsValid(file) THEN 200 ELSE 400 ]_vars

\* C10 witness: an upload was just refused while an offer, a lead batch and
\* results are all in place.
C10_RefusedUploadOverFullState ==
    /\ response = Response("upload_leads", 400)
    /\ offer_data # << >>
    /\ Len(leads_data) > 1
    /\ Len(scored_results) > 0

(***************************************************************************)
(* Properties of the scoring pipeline (SpecScoring)                        *)
(***************************************************************************)
AiScores == { 10, 20, 25, 30, 35, 40, 50 }

\* C6: every ScoredLead in the store has rule_score in 0..50, ai_score in
\* {10,20,25,30,35,40,50} and score = rule_score + ai_score.
C6_ScoresWithinRange ==
    \A r \in Entries :
        /\ r.rule_score \in 0..50
        /\ r.ai_score \in AiScores
        /\ r.score = r.rule_score + r.ai_score

\* C6 witness: the store holds a lead with the highest rule score, and a run
\* on the delegated path has stored a failed call's result.
C6_TopRuleScoreStored ==
    \E r \in Entries : r.rule_score = 50 /\ r.ai_score = 25

\* C8: with the heuristic active, a lead whose role score and industry score
\* are both 0 gets ai_score 20, a final score of at most 30 and intent Low.
C8_ColdLeadIsLow ==
    ~GEMINI_API_KEY =>
        \A r \in Entries :
            (/\ calculate_role_score(r.role) = 0
             /\ calculate_industry_score(r.industry, offer_data.ideal_use_cases) = 0)
            => /\ r.ai_score = 20
               /\ r.score <= 30
               /\ r.intent = "Low"

\* C8 witness: such a lead, with every field filled, is in the store.
C8_ColdLeadStored ==
    /\ ~GEMINI_API_KEY
    /\ \E r \in Entries :
          /\ calculate_role_score(r.role) = 0
          /\ calculate_industry_score(r.industry, offer_data.ideal_use_cases) = 0
          /\ r.rule_score = 10

\* the decision table of the heuristic
DecisionTable(decision_maker, tech) ==
    IF decision_maker /\ tech THEN 50
    ELSE IF decision_maker THEN 40
    ELSE IF tech THEN 35
    ELSE 20

\* C9 as stated: the heuristic's ai_score follows the table, a role being a
\* decision-maker exactly when the rule scorer gives it 20 and an industry
\* being tech exactly when it holds an adjacent-technology keyword.
C9_TableOverRuleScorerSets ==
    ~GEMINI_API_KEY =>
        \A r \in Entries :
            r.ai_score = DecisionTable(calculate_role_score(r.role) = 20,
                                       AnyIn(adjacent_keywords, Lower(r.industry)))

HeuristicRoles == { "ceo", "cto", "founder", "head of", "director", "vp" }
HeuristicIndustries == { "saas", "technology", "software", "tech" }

\* C9 amended: the heuristic's ai_score follows the table over its own
\* keywords: ceo, cto, founder, head of, director, vp for the role, and saas,
\* technology, software, tech for the industry; every such role also earns
\* role_score 20, but not every role that earns 20 is one of them.
C9_TableOverHeuristicSets ==
    ~GEMINI_API_KEY =>
        \A r \in Entries :
            LET decision_maker == \E k \in HeuristicRoles : Contains(k, Lower(r.role))
                tech == \E k \in HeuristicIndustries : Contains(k, Lower(r.industry))
            IN  /\ r.ai_score = DecisionTable(decision_maker, tech)
                /\ decision_maker => calculate_role_score(r.role) = 20

\* C9 witness: a role the rule scorer gives 20 that the heuristic does not
\* count as a decision-maker.
C9_RuleOnlyDecisionMakerStored ==
    /\ ~GEMINI_API_KEY
    /\ \E r \in Entries : calculate_role_score(r.role) = 20 /\ r.ai_score \in { 20, 35 }

\* the run of worker w has, for each lead consumed, made one request and
\* stored one result for that lead
OneResultPerRequest(w) ==
    /\ Len(requests[w]) = idx[w]
    /\ Len(scored_results) = idx[w]
    /\ \A i \in 1..idx[w] : LeadOf(scored_results[i]) = batch[w][i]

\* the result r stored for a call answered by `reply` is the degraded one:
\* 25, with a reasoning that names the failure
Degraded(r, reply) ==
    /\ r.ai_score = 25
    /\ Contains("AI scoring failed", r.reasoning)
    /\ Contains(reply.error, r.reasoning)

\* C4 as stated: on the delegated path every failed call, a response without
\* the expected text included, scores 25 with a reasoning naming the failure;
\* one request per lead, a result for every lead, never a 500.
C4_EveryFailureScores25 ==
    GEMINI_API_KEY =>
        /\ response.status # 500
        /\ \A w \in Workers :
              pc[w] = "loop"
              => /\ OneResultPerRequest(w)
                 /\ \A i \in 1..idx[w] :
                       (requests[w][i].error # "" \/ ~requests[w][i].has_text)
                       => Degraded(scored_results[i], requests[w][i])

\* C4 amended: the same for the calls that raise: a network error, a timeout,
\* a non-success status, a body that is not JSON.
C4_RaisedFailureScores25 ==
    GEMINI_API_KEY =>
        /\ response.status # 500
        /\ \A w \in Workers :
              pc[w] = "loop"
              => /\ OneResultPerRequest(w)
                 /\ \A i \in 1..idx[w] :
                       requests[w][i].error # ""
                       => Degraded(scored_results[i], requests[w][i])

\* C4 witness: the first call of a two-lead batch failed and the run went on
\* to store a result for both leads.
C4_RunWentOnAfterFailure ==
    /\ GEMINI_API_KEY
    /\ pc[1] = "loop"
    /\ idx[1] = 2
    /\ Len(scored_results) = 2
    /\ requests[1][1].error # ""
    /\ scored_results[1].ai_score = 25

=============================================================================
